---- MODULE Spec2Model ----
(***************************************************************************)
(* Model of the vehicle session of py-drivesdk (anki/control/vehicle.py):  *)
(* the notification dispatch routine and the state it derives, the pending *)
(* track-change slot, align(), connect()/disconnect() and the keep-alive   *)
(* supervisor task (_auto_ping).                                           *)
(*                                                                         *)
(* Optional values (Python None) are sequences of length 0 or 1.           *)
(***************************************************************************)
EXTENDS Integers, Sequences, FiniteSets, TLC

\* ------------------------------------------------------------- bounds
MaxMapLen == 2
MaxPosition == 3
MaxTasks == 2
MaxReady == 2
MaxCallers == 2
MaxWatchers == 2
MaxPatterns == 4

\* --------------------------------------------------- program constants
max_timeouts == 2
MAX_INTENSITY == 14
MAX_CYCLES_PER_10s == 255
MAX_LIGHT_PATTERNS == 3

\* ------------------------------------------------------------- values
None == <<>>
Some(x) == <<x>>
Val(o) == o[1]

PieceTypes == {"START", "FINISH"}
Offsets == {5}
Speeds == {300}
Versions == {1, 2}
Callers == 1..MaxCallers

RECURSIVE SeqsUpTo(_, _)
SeqsUpTo(S, n) ==
    IF n = 0 THEN {<<>>}
    ELSE LET shorter == SeqsUpTo(S, n - 1)
         IN  shorter \cup {Append(s, x) : s \in {q \in shorter : Len(q) = n - 1}, x \in S}

\* Maps a scan can supply: at least one piece.
Maps == {m \in SeqsUpTo(PieceTypes, MaxMapLen) : Len(m) >= 1}

MsgTypes == {"TRACK_PIECE_UPDATE", "TRACK_PIECE_CHANGE", "PONG", "DELOCALIZED",
             "CHARGER_INFO", "VERSION_RESP", "UNKNOWN"}

\* A notification buffer: short = shorter than the packet header; truncated =
\* payload too short for the struct layout of its type; raw = what the
\* (location, piece, clockwise) triple resolves to.
Plain(type) ==
    [type |-> type, short |-> FALSE, truncated |-> FALSE,
     offset |-> 5, speed |-> 300, raw |-> "START",
     on_charger |-> FALSE, charging |-> FALSE, full |-> FALSE, version |-> 0]

TrackUpdates ==
    {[Plain("TRACK_PIECE_UPDATE") EXCEPT !.truncated = tr, !.offset = o,
                                         !.speed = sp, !.raw = raw] :
        tr \in BOOLEAN, o \in Offsets, sp \in Speeds,
        raw \in PieceTypes \cup {"UNDECODABLE"}}
TrackChanges ==
    {[Plain("TRACK_PIECE_CHANGE") EXCEPT !.truncated = tr] : tr \in BOOLEAN}

\* Two payloads that tell the three flags apart.
ChargerInfos ==
    {[Plain("CHARGER_INFO") EXCEPT !.truncated = tr, !.on_charger = oc,
                                   !.charging = ~oc] :
        tr \in BOOLEAN, oc \in BOOLEAN}
VersionResps ==
    {[Plain("VERSION_RESP") EXCEPT !.truncated = tr, !.version = v] :
        tr \in BOOLEAN, v \in Versions}
ShortBuffers == {[Plain("UNKNOWN") EXCEPT !.short = TRUE]}

VARIABLES
    _current_track_piece,   \* cached piece of the last TRACK_PIECE_UPDATE
    _position,              \* map_position
    _map,
    _road_offset,
    _speed,
    _track_piece_future,    \* state of the current pending slot
    _is_connected,
    _write_chara,           \* TRUE once connect() has stored the endpoints
    _controller,            \* TRUE if the session has an owning controller
    vehicles,               \* TRUE if the session is in controller.vehicles
    _ping_task,             \* index of the task _ping_task refers to, 0 = unset
    tasks,                  \* the _auto_ping tasks created so far
    _track_piece_watchers,
    _pong_watchers,
    _delocal_watchers,
    _battery_watchers,
    _battery,
    _version_future,        \* state of the pending version slot
    requester,              \* the callers of get_version()
    ready,                  \* callbacks scheduled with call_soon
    waiter,                 \* a caller of wait_for_track_change()
    aligner,                \* a caller of align()
    connector,              \* a caller of connect(), step by step
    last                    \* the operation that produced this state

vars == <<_current_track_piece, _position, _map, _road_offset, _speed,
          _track_piece_future, _is_connected, _write_chara, _controller,
          vehicles, _ping_task, tasks, _track_piece_watchers, _pong_watchers,
          _delocal_watchers, _battery_watchers, _battery, _version_future,
          requester, ready, waiter, aligner, connector, last>>

trackVars == <<_current_track_piece, _position, _map, _road_offset, _speed,
               _track_piece_future, waiter, aligner>>
otherVars == <<_track_piece_watchers, _delocal_watchers, _battery_watchers,
               _battery, _version_future, requester, _controller>>
connVars == <<_is_connected, _write_chara, vehicles, _ping_task, tasks, connector>>

\* An _auto_ping task: where its coroutine is suspended, its timeouts counter,
\* the state of its pong_reply_future, the exception that ended it, and whether
\* its pong_watch was called since its last ping.
NoTask == [pc |-> "none", timeouts |-> 0, fut |-> "pending", raised |-> "none",
           ponged |-> FALSE]
\* A task whose coroutine is over: its locals are gone.
Finished(pc, raised) == [NoTask EXCEPT !.pc = pc, !.raised = raised]
Live(task) == task.pc \in {"start", "sleep", "wait", "disconnect"}
Ended(task) == task.pc \in {"done", "cancelled", "failed"}

\* The operation that led to the current state, with the values it started from.
Last(op, arg, raised, task, ponged) ==
    [op |-> op, arg |-> arg, raised |-> raised, returned |-> TRUE,
     task |-> task, ponged |-> ponged,
     piece |-> _current_track_piece, position |-> _position, map |-> _map,
     connected |-> _is_connected, who |-> 0, result |-> None, hook |-> None]

\* The same for an operation whose starting values no property refers to.
Event(op, arg, raised) ==
    [op |-> op, arg |-> arg, raised |-> raised, returned |-> TRUE,
     task |-> 0, ponged |-> FALSE,
     piece |-> None, position |-> None, map |-> None, connected |-> _is_connected,
     who |-> 0, result |-> None, hook |-> None]

\* The same for a call of caller or callback `who` that returns `result`.
Outcome(op, arg, who, raised, result) ==
    [Event(op, arg, raised) EXCEPT !.who = who, !.result = result]

Init ==
    /\ _current_track_piece = None
    /\ _position = None
    /\ _map = None
    /\ _road_offset = None
    /\ _speed = 0
    /\ _track_piece_future = "pending"
    /\ _is_connected = FALSE
    /\ _write_chara = FALSE
    /\ _controller \in BOOLEAN
    /\ vehicles = _controller
    /\ _ping_task = 0
    /\ tasks = [i \in 1..MaxTasks |-> NoTask]
    /\ _track_piece_watchers = <<>>
    /\ _pong_watchers = <<>>
    /\ _delocal_watchers = <<>>
    /\ _battery_watchers = <<>>
    /\ _battery = [full_battery |-> FALSE, low_battery |-> Some(FALSE),
                   on_charger |-> FALSE, charging |-> None]
    /\ _version_future = "pending"
    /\ requester = [i \in Callers |-> [pc |-> "idle", raised |-> "none", value |-> None]]
    /\ ready = <<>>
    /\ waiter = [pc |-> "idle", raised |-> "none", value |-> None]
    /\ aligner = [pc |-> "idle", speed |-> 0, target |-> "FINISH"]
    /\ connector = [pc |-> "idle"]
    /\ last = [op |-> "init", arg |-> "none", raised |-> "none",
               returned |-> TRUE, task |-> 0, ponged |-> FALSE,
               piece |-> None, position |-> None, map |-> None, connected |-> FALSE,
               who |-> 0, result |-> None, hook |-> None]

\* ------------------------------------------------- public accessors
\* Python indexing of the map tuple with a non-negative index.
Index(m, i) ==
    IF i < Len(m) THEN [raised |-> "none", value |-> Some(m[i + 1])]
    ELSE [raised |-> "IndexError", value |-> None]

\* The accessor falling back to the cached piece.
current_track_piece_Cached ==
    IF _map = None \/ _position = None
    THEN [raised |-> "none", value |-> _current_track_piece]
    ELSE Index(Val(_map), Val(_position))

current_track_piece ==
    IF _map = None \/ _position = None
    THEN [raised |-> "none", value |-> None]
    ELSE Index(Val(_map), Val(_position))

\* --------------------------------------------- notification dispatch
FromRaw(raw) ==
    IF raw \in PieceTypes THEN [raised |-> "none", piece |-> Some(raw)]
    ELSE [raised |-> "ValueError", piece |-> None]

\* lines 239-243
FinishReset(piece, position) ==
    IF piece # None /\ Val(piece) = "FINISH" THEN Some(0) ELSE position

\* The increment without the reduction modulo the map length.
Advance_NoWrap(position, map) ==
    IF position # None THEN Some(Val(position) + 1) ELSE position

\* lines 247-254
Advance(position, map) ==
    IF position # None
    THEN IF map # None
         THEN Some((Val(position) + 1) % Len(Val(map)))
         ELSE Some(Val(position) + 1)
    ELSE position

\* _call_all_soon scheduling every function twice.
CallAllSoon_Twice(queue, funcs) == queue \o funcs \o funcs

\* _call_all_soon
CallAllSoon(queue, funcs) == queue \o funcs

\* line 261: what the on_track_piece_change hook finds when it is called.
OnTrackPieceChange(position, slot) == [position |-> position, slot |-> slot]

\* The awaiting coroutines a completed slot wakes up.
Wake(w) == IF w.pc = "waiting" THEN [w EXCEPT !.pc = "woken"] ELSE w
WakeWith(w, v) ==
    IF w.pc = "waiting" THEN [w EXCEPT !.pc = "woken", !.value = Some(v)] ELSE w

\* BatteryState.from_charger_info reading the flags in another order.
FromChargerInfo_Swapped(data) ==
    [full_battery |-> data.on_charger, low_battery |-> None,
     on_charger |-> data.full, charging |-> Some(data.charging)]

\* BatteryState.from_charger_info
FromChargerInfo(data) ==
    [full_battery |-> data.full, low_battery |-> None,
     on_charger |-> data.on_charger, charging |-> Some(data.charging)]

\* The update storing the offset but not the speed.
Measured_OffsetOnly(same, data) ==
    [same EXCEPT !.road_offset = Some(data.offset)]

\* lines 222-223: the decoded offset and speed are stored.
Measured(same, data) ==
    [same EXCEPT !.road_offset = Some(data.offset), !.speed = data.speed]

\* An unrecognised message type treated like a PONG.
Dropped_FansOut(same) ==
    [same EXCEPT !.ready = CallAllSoon(ready, _pong_watchers)]

\* lines 276-277: no branch matches the message type.
Dropped(same) == [same EXCEPT !.returned = FALSE]

\* The slot after set_result() without the replacement by a fresh Future.
Replaced_Kept(slot) == "done"

\* lines 256-259 and 274-275: set_result() on the pending slot, then a fresh
\* Future is assigned to the field.
Replaced(slot) == "pending"

\* What _notify_handler does to the session for one buffer: the new value of
\* every field it can touch, the exception it raises and its return value.
Dispatch(data) ==
    LET same == [piece |-> _current_track_piece, position |-> _position,
                 road_offset |-> _road_offset, speed |-> _speed,
                 future |-> _track_piece_future, waiter |-> waiter,
                 aligner |-> aligner, battery |-> _battery,
                 version_future |-> _version_future, requester |-> requester,
                 ready |-> ready, raised |-> "none", returned |-> TRUE,
                 hook |-> None]
    IN
    IF data.short THEN [same EXCEPT !.raised = "MalformedPacket"]
    ELSE CASE data.type = "TRACK_PIECE_UPDATE" ->
            IF data.truncated THEN [same EXCEPT !.raised = "struct.error"]
            ELSE LET upd == Measured(same, data)
                     res == FromRaw(data.raw)
                 IN  IF res.raised # "none" THEN upd
                     ELSE [upd EXCEPT !.piece = res.piece]
         [] data.type = "TRACK_PIECE_CHANGE" ->
            LET reset == FinishReset(_current_track_piece, _position)
                moved == Advance(reset, _map)
            IN  IF data.truncated
                THEN [same EXCEPT !.position = reset, !.raised = "struct.error"]
                ELSE IF _track_piece_future # "pending"
                THEN [same EXCEPT !.position = moved, !.raised = "InvalidStateError"]
                ELSE [same EXCEPT !.position = moved,
                                  !.future = Replaced(_track_piece_future),
                                  !.waiter = Wake(waiter),
                                  !.aligner = Wake(aligner),
                                  !.hook = Some(OnTrackPieceChange(moved,
                                                Replaced(_track_piece_future))),
                                  !.ready = CallAllSoon(ready, _track_piece_watchers)]
         [] data.type = "PONG" ->
            [same EXCEPT !.ready = CallAllSoon(ready, _pong_watchers)]
         [] data.type = "DELOCALIZED" ->
            [same EXCEPT !.ready = CallAllSoon(ready, _delocal_watchers)]
         [] data.type = "CHARGER_INFO" ->
            IF data.truncated THEN [same EXCEPT !.raised = "struct.error"]
            ELSE [same EXCEPT !.battery = FromChargerInfo(data),
                              !.ready = CallAllSoon(ready, _battery_watchers)]
         [] data.type = "VERSION_RESP" ->
            IF data.truncated THEN [same EXCEPT !.raised = "struct.error"]
            ELSE IF _version_future # "pending"
            THEN [same EXCEPT !.raised = "InvalidStateError"]
            ELSE [same EXCEPT !.version_future = Replaced(_version_future),
                              !.requester =
                        [i \in Callers |-> WakeWith(requester[i], data.version)]]
         [] OTHER -> Dropped(same)

Shape(data) ==
    IF data.short THEN "short" ELSE IF data.truncated THEN "truncated" ELSE "ok"

\* The model follows the position counter up to MaxPosition.
InRange(position) == IF position = None THEN TRUE ELSE Val(position) <= MaxPosition

NotifyHandler(data) ==
    LET d == Dispatch(data) IN
    /\ Len(d.ready) <= MaxReady
    /\ InRange(d.position)
    /\ _current_track_piece' = d.piece
    /\ _position' = d.position
    /\ _road_offset' = d.road_offset
    /\ _speed' = d.speed
    /\ _track_piece_future' = d.future
    /\ waiter' = d.waiter
    /\ aligner' = d.aligner
    /\ _battery' = d.battery
    /\ _version_future' = d.version_future
    /\ requester' = d.requester
    /\ ready' = d.ready
    /\ last' = [Last(data.type, Shape(data), d.raised, 0, FALSE)
                EXCEPT !.returned = d.returned, !.hook = d.hook]
    /\ UNCHANGED <<_map, _track_piece_watchers, _pong_watchers, _delocal_watchers,
                   _battery_watchers, _controller>>
    /\ UNCHANGED connVars

\* Python truthiness of the left operand of `and` at line 388.
Truthy(x) == x # None

\* The callback connect() subscribes: lambda *args: None and handler(*args).
\* `and` yields a falsy left operand without evaluating the right one.
NotifyLambda == [calls_handler |-> Truthy(None)]

\* The transport delivers a buffer to the callback subscribed by connect().
Deliver(data) ==
    /\ _is_connected
    /\ _write_chara
    /\ IF NotifyLambda.calls_handler
       THEN NotifyHandler(data)
       ELSE /\ last' = Event("deliver", data.type, "none")
            /\ UNCHANGED <<_current_track_piece, _position, _map, _road_offset, _speed,
                           _track_piece_future, waiter, aligner, _pong_watchers, ready>>
            /\ UNCHANGED connVars
            /\ UNCHANGED otherVars

\* The controller hands the scanned map to the session.
SetMap(m) ==
    /\ _map' = Some(m)
    /\ last' = Event("set_map", "none", "none")
    /\ UNCHANGED <<_current_track_piece, _position, _road_offset, _speed,
                   _track_piece_future, waiter, aligner, _pong_watchers, ready>>
    /\ UNCHANGED connVars
    /\ UNCHANGED otherVars

\* ------------------------------------------- wait_for_track_change
\* await self._track_piece_future: a cancelled future raises at once, a
\* completed one lets the caller go on at once.
WaitForTrackChange ==
    /\ waiter.pc = "idle"
    /\ waiter' = CASE _track_piece_future = "pending" ->
                        [pc |-> "waiting", raised |-> "none", value |-> None]
                   [] _track_piece_future = "done" ->
                        [pc |-> "woken", raised |-> "none", value |-> None]
                   [] OTHER ->
                        [pc |-> "idle", raised |-> "CancelledError", value |-> None]
    /\ last' = Event("wait_call", "none", waiter'.raised)
    /\ UNCHANGED <<_current_track_piece, _position, _map, _road_offset, _speed,
                   _track_piece_future, aligner, _pong_watchers, ready>>
    /\ UNCHANGED connVars
    /\ UNCHANGED otherVars

\* The coroutine resumes after its future was completed and returns the accessor.
WaitReturn ==
    /\ waiter.pc = "woken"
    /\ waiter' = [pc |-> "idle", raised |-> current_track_piece.raised,
                  value |-> current_track_piece.value]
    /\ last' = Event("wait_return", "none", current_track_piece.raised)
    /\ UNCHANGED <<_current_track_piece, _position, _map, _road_offset, _speed,
                   _track_piece_future, aligner, _pong_watchers, ready>>
    /\ UNCHANGED connVars
    /\ UNCHANGED otherVars

\* A coroutine awaiting the future that has just been cancelled.
Thrown(w) ==
    IF w.pc = "waiting" THEN [w EXCEPT !.pc = "idle"] ELSE w

\* The caller cancels its pending wait; the cancellation reaches the awaited future.
WaitCancel ==
    /\ waiter.pc = "waiting"
    /\ waiter' = [pc |-> "idle", raised |-> "CancelledError", value |-> None]
    /\ _track_piece_future' = "cancelled"
    /\ aligner' = Thrown(aligner)
    /\ last' = Event("wait_cancel", "none", "CancelledError")
    /\ UNCHANGED <<_current_track_piece, _position, _map, _road_offset, _speed,
                   _pong_watchers, ready>>
    /\ UNCHANGED connVars
    /\ UNCHANGED otherVars

\* ---------------------------------------------------------- commands
\* __send_package: w is what the transport write does.
SendPackage(w) ==
    IF ~_write_chara THEN "AttributeError"
    ELSE IF w = "ok" THEN "none" ELSE "RuntimeError"

\* ------------------------------------------------------------ lights
\* _Effect
Effect(name) ==
    CASE name = "STEADY" -> 0
      [] name = "FADE" -> 1
      [] name = "THROB" -> 2
      [] name = "FLASH" -> 3
      [] OTHER -> 4

AnimatedEffects == {"FADE", "THROB", "FLASH"}

\* LightChannel: the channel patterns are constructed for (FRONT_2).
Channels == {5}

\* A descriptor that forces the value into its range instead of refusing it.
RangedSet_Clamped(attr, limit, value) ==
    [raised |-> "none", field |-> "none",
     value |-> IF value < 0 THEN 0 ELSE IF value > limit THEN limit ELSE value]

\* _RangedValue.__set__ with the range(limit + 1) of _RANGE_FACTORY; the error
\* message names attr.
RangedSet(attr, limit, value) ==
    IF value \notin 0..limit
    THEN [raised |-> "ValueError", field |-> attr, value |-> value]
    ELSE [raised |-> "none", field |-> "none", value |-> value]

Refused(set) == [raised |-> set.raised, field |-> set.field, pattern |-> None]

\* SteadyPattern.__init__
SteadyPattern(channel, brightness) ==
    LET b == RangedSet("brightness", MAX_INTENSITY, brightness) IN
    IF b.raised # "none" THEN Refused(b)
    ELSE [raised |-> "none", field |-> "none",
          pattern |-> Some([effect |-> "STEADY", channel |-> channel,
                            start |-> b.value, end |-> 0, cycles |-> 0])]

\* RandomPattern.__init__
RandomPattern(channel) ==
    [raised |-> "none", field |-> "none",
     pattern |-> Some([effect |-> "RANDOM", channel |-> channel,
                       start |-> 0, end |-> 0, cycles |-> 0])]

\* AnimatedPattern.__init__: the generated constructor assigns the fields in
\* their declared order.
AnimatedPattern(effect, channel, starting_brightness, ending_brightness, cycles_per_10s) ==
    LET st == RangedSet("start", MAX_INTENSITY, starting_brightness)
        en == RangedSet("end", MAX_INTENSITY, ending_brightness)
        cy == RangedSet("cycles_per_10s", MAX_CYCLES_PER_10s, cycles_per_10s)
    IN  IF st.raised # "none" THEN Refused(st)
        ELSE IF en.raised # "none" THEN Refused(en)
        ELSE IF cy.raised # "none" THEN Refused(cy)
        ELSE [raised |-> "none", field |-> "none",
              pattern |-> Some([effect |-> effect, channel |-> channel,
                                start |-> st.value, end |-> en.value,
                                cycles |-> cy.value])]

\* _to_bytes: struct.pack("BBBBB", ...); a pattern holds validated fields, so
\* every value is a byte.
to_bytes(p) == <<p.channel, Effect(p.effect), p.start, p.end, p.cycles>>

RECURSIVE Join(_)
Join(patterns) ==
    IF patterns = <<>> THEN <<>>
    ELSE to_bytes(Head(patterns)) \o Join(Tail(patterns))

\* set_light_pattern_pkg without its length check.
set_light_pattern_pkg_Unchecked(patterns) ==
    [raised |-> "none",
     payload |-> Some(<<Len(patterns) % 256>> \o Join(patterns))]

\* set_light_pattern_pkg: the payload handed to assemble_packet.
set_light_pattern_pkg(patterns) ==
    IF Len(patterns) > MAX_LIGHT_PATTERNS
    THEN [raised |-> "ValueError", payload |-> None]
    ELSE [raised |-> "none",
          payload |-> Some(<<Len(patterns) % 256>> \o Join(patterns))]

\* Patterns a caller holds.
SomePatterns ==
    {Val(SteadyPattern(1, 14).pattern), Val(RandomPattern(5).pattern),
     Val(AnimatedPattern("THROB", 5, 0, 14, 255).pattern)}

\* Field values around both limits.
FieldValues == {-1, 0, MAX_INTENSITY, MAX_INTENSITY + 1,
                MAX_CYCLES_PER_10s, MAX_CYCLES_PER_10s + 1}

\* set_light_pattern: the packet is built before __send_package is entered.
SetLightPattern(patterns, w) ==
    LET pkg == set_light_pattern_pkg(patterns)
        sent == IF pkg.raised # "none" THEN pkg.raised ELSE SendPackage(w)
    IN
    /\ last' = Outcome("set_light_pattern", w, Len(patterns), sent,
                       Some([payload |-> pkg.payload,
                             written |-> pkg.raised = "none" /\ _write_chara]))
    /\ UNCHANGED trackVars
    /\ UNCHANGED connVars
    /\ UNCHANGED otherVars
    /\ UNCHANGED <<_pong_watchers, ready>>

\* A caller constructs a pattern.
Construct(effect, channel, given) ==
    LET res == IF effect = "STEADY" THEN SteadyPattern(channel, given[1])
               ELSE AnimatedPattern(effect, channel, given[1], given[2], given[3])
    IN
    /\ last' = Outcome("construct", effect, channel, res.raised,
                       Some([given |-> given, field |-> res.field,
                             pattern |-> res.pattern]))
    /\ UNCHANGED trackVars
    /\ UNCHANGED connVars
    /\ UNCHANGED otherVars
    /\ UNCHANGED <<_pong_watchers, ready>>

\* --------------------------------------------------------- set_speed
Int16 == -32768..32767

\* The speeds and accelerations a caller passes: inside and just outside the
\* signed 16-bit range of the encoding.
CommandedSpeeds == {0, 300, 32767, 32768}
CommandedAccels == {500, 32768}

\* set_speed_pkg: int.to_bytes(2, "little", signed=True) of both arguments.
set_speed_pkg(speed, accel) ==
    IF speed \in Int16 /\ accel \in Int16 THEN "none" ELSE "OverflowError"

\* The speed field assigned before the outcome of the write is known.
SpeedField_Eager(raised, speed) == speed

\* lines 442-443: the assignment follows the awaited write and is skipped when
\* the encoding or the write raised.
SpeedField(raised, speed) == IF raised = "none" THEN speed ELSE _speed

\* set_speed: the package is encoded, written, and the speed is stored.
SetSpeed(speed, accel, w) ==
    LET raised == IF set_speed_pkg(speed, accel) # "none"
                  THEN set_speed_pkg(speed, accel)
                  ELSE SendPackage(w)
    IN  /\ _speed' = SpeedField(raised, speed)
        /\ last' = Outcome("set_speed", w, speed, raised, Some(accel))
        /\ UNCHANGED <<_current_track_piece, _position, _map, _road_offset,
                       _track_piece_future, waiter, aligner>>
        /\ UNCHANGED connVars
        /\ UNCHANGED otherVars
        /\ UNCHANGED <<_pong_watchers, ready>>

\* -------------------------------------------------------- set_lights
\* class Lights
Lights == [ENGINE |-> 1, BRAKELIGHTS |-> 2, HEADLIGHTS |-> 4, BRAKELIGHTS_FLICKER |-> 8]

\* x & bit # 0 and x | bit for a mask with a single bit set.
HasBit(x, bit) == (x \div bit) % 2 = 1
BitOr(x, bit) == IF HasBit(x, bit) THEN x ELSE x + bit

\* A tri-state argument: None, Some(FALSE) or Some(TRUE).
TriStates == {None, Some(FALSE), Some(TRUE)}

\* _set_lights_bits setting the high bit for every argument that is given.
_set_lights_bits_AnyGiven(low, high, bit, op) ==
    IF op # None THEN <<BitOr(low, bit), BitOr(high, bit)>> ELSE <<low, high>>

\* _set_lights_bits
_set_lights_bits(low, high, bit, op) ==
    IF op # None
    THEN <<BitOr(low, bit), IF Val(op) THEN BitOr(high, bit) ELSE high>>
    ELSE <<low, high>>

\* lines 544-550: the bitmask handed to set_lights_raw, (high << 4) | low.
LightsByte(engine, headlights, brakelights, brakelights_flicker) ==
    LET a == _set_lights_bits(0, 0, Lights.ENGINE, engine)
        b == _set_lights_bits(a[1], a[2], Lights.BRAKELIGHTS, brakelights)
        c == _set_lights_bits(b[1], b[2], Lights.HEADLIGHTS, headlights)
        d == _set_lights_bits(c[1], c[2], Lights.BRAKELIGHTS_FLICKER, brakelights_flicker)
    IN  d[2] * 16 + d[1]

\* set_lights: the byte is computed, then written.
SetLights(engine, headlights, brakelights, brakelights_flicker, w) ==
    /\ last' = Outcome("set_lights", w, 0, SendPackage(w),
                       Some([engine |-> engine, headlights |-> headlights,
                             brakelights |-> brakelights,
                             brakelights_flicker |-> brakelights_flicker,
                             light |-> LightsByte(engine, headlights, brakelights,
                                                  brakelights_flicker)]))
    /\ UNCHANGED trackVars
    /\ UNCHANGED connVars
    /\ UNCHANGED otherVars
    /\ UNCHANGED <<_pong_watchers, ready>>

\* ------------------------------------------------------- get_version
\* line 716: the request is written; w is what the transport write does.
GetVersion(i, w) ==
    /\ requester[i].pc = "idle"
    /\ requester' = [requester EXCEPT ![i] =
            IF SendPackage(w) = "none"
            THEN [pc |-> "sent", raised |-> "none", value |-> None]
            ELSE [pc |-> "idle", raised |-> SendPackage(w), value |-> None]]
    /\ last' = Outcome("get_version", "none", i, SendPackage(w), None)
    /\ UNCHANGED trackVars
    /\ UNCHANGED connVars
    /\ UNCHANGED <<_track_piece_watchers, _pong_watchers, _delocal_watchers,
                   _battery_watchers, _battery, _version_future, _controller, ready>>

\* line 717: the caller resumes after the write and awaits the current slot.
GetVersionAwait(i) ==
    /\ requester[i].pc = "sent"
    /\ requester' = [requester EXCEPT ![i] =
            CASE _version_future = "pending" ->
                    [pc |-> "waiting", raised |-> "none", value |-> None]
              [] _version_future = "done" ->
                    [pc |-> "woken", raised |-> "none", value |-> None]
              [] OTHER ->
                    [pc |-> "idle", raised |-> "CancelledError", value |-> None]]
    /\ last' = Outcome("get_version_await", "none", i, requester'[i].raised, None)
    /\ UNCHANGED trackVars
    /\ UNCHANGED connVars
    /\ UNCHANGED <<_track_piece_watchers, _pong_watchers, _delocal_watchers,
                   _battery_watchers, _battery, _version_future, _controller, ready>>

\* The caller resumes after its slot was resolved and returns the slot's result.
GetVersionReturn(i) ==
    /\ requester[i].pc = "woken"
    /\ requester' = [requester EXCEPT ![i].pc = "idle"]
    /\ last' = Outcome("get_version_return", "none", i, "none", requester[i].value)
    /\ UNCHANGED trackVars
    /\ UNCHANGED connVars
    /\ UNCHANGED <<_track_piece_watchers, _pong_watchers, _delocal_watchers,
                   _battery_watchers, _battery, _version_future, _controller, ready>>

\* A caller cancels its pending get_version(); the cancellation reaches the
\* awaited slot and with it every other caller awaiting it.
GetVersionCancel(i) ==
    /\ requester[i].pc = "waiting"
    /\ requester' = [j \in Callers |->
            IF j = i THEN [pc |-> "idle", raised |-> "CancelledError", value |-> None]
            ELSE IF requester[j].pc = "waiting"
            THEN [pc |-> "idle", raised |-> "CancelledError", value |-> None]
            ELSE requester[j]]
    /\ _version_future' = "cancelled"
    /\ last' = Outcome("get_version_cancel", "none", i, "CancelledError", None)
    /\ UNCHANGED trackVars
    /\ UNCHANGED connVars
    /\ UNCHANGED <<_track_piece_watchers, _pong_watchers, _delocal_watchers,
                   _battery_watchers, _battery, _controller, ready>>

\* ------------------------------------------------------------- align
AlignCall(speed, target) ==
    /\ aligner.pc = "idle"
    /\ aligner' = IF _write_chara
                  THEN [pc |-> "set_speed", speed |-> speed, target |-> target]
                  ELSE aligner
    /\ last' = Event("align_call", target, SendPackage("ok"))
    /\ UNCHANGED <<_current_track_piece, _position, _map, _road_offset, _speed,
                   _track_piece_future, waiter, _pong_watchers, ready>>
    /\ UNCHANGED connVars
    /\ UNCHANGED otherVars

\* lines 599-600
OnTarget(piece, target) ==
    IF piece = None THEN FALSE ELSE Val(piece) = target

\* The loop of align() going on to stop() without line 604.
AlignLoop_NoReset ==
    IF OnTarget(_current_track_piece, aligner.target)
    THEN [pc |-> "stop", position |-> _position, raised |-> "none"]
    ELSE IF _track_piece_future = "pending"
    THEN [pc |-> "waiting", position |-> _position, raised |-> "none"]
    ELSE [pc |-> "idle", position |-> _position, raised |-> "CancelledError"]

\* The while loop of align() from its test up to the next suspension.
AlignLoop ==
    IF OnTarget(_current_track_piece, aligner.target)
    THEN [pc |-> "stop", position |-> Some(0), raised |-> "none"]
    ELSE IF _track_piece_future = "pending"
    THEN [pc |-> "waiting", position |-> _position, raised |-> "none"]
    ELSE [pc |-> "idle", position |-> _position, raised |-> "CancelledError"]

\* align() resumes from a completed write or a completed track-change slot.
AlignResume(w) ==
    /\ aligner.pc \in {"set_speed", "woken", "stop"}
    /\ aligner.pc = "woken" => w = "ok"
    /\ LET r == IF w # "ok"
                THEN [pc |-> "idle", position |-> _position, raised |-> "RuntimeError",
                      speed |-> _speed]
                ELSE IF aligner.pc = "stop"
                THEN [pc |-> "idle", position |-> _position, raised |-> "none",
                      speed |-> 0]
                ELSE IF aligner.pc = "woken" /\ current_track_piece.raised # "none"
                THEN [pc |-> "idle", position |-> _position,
                      raised |-> current_track_piece.raised, speed |-> _speed]
                ELSE [pc |-> AlignLoop.pc, position |-> AlignLoop.position,
                      raised |-> AlignLoop.raised,
                      speed |-> IF aligner.pc = "set_speed" THEN aligner.speed ELSE _speed]
       IN  /\ aligner' = [aligner EXCEPT !.pc = r.pc]
           /\ _position' = r.position
           /\ _speed' = r.speed
           /\ last' = Event("align_resume", w, r.raised)
    /\ UNCHANGED <<_current_track_piece, _map, _road_offset, _track_piece_future,
                   waiter, _pong_watchers, ready>>
    /\ UNCHANGED connVars
    /\ UNCHANGED otherVars

\* ---------------------------------------------------------- watchers
WatcherKinds == {"track_piece_change", "pong", "delocalized", "battery_change"}
UserCallbacks == 1..2

\* A callback of the library's user.
UserCallback(n) == [f |-> "user", id |-> n]

Watchers(kind) ==
    CASE kind = "track_piece_change" -> _track_piece_watchers
      [] kind = "pong" -> _pong_watchers
      [] kind = "delocalized" -> _delocal_watchers
      [] OTHER -> _battery_watchers

\* What each registration method returns: lines 622 and 712 return func,
\* lines 654 and 687 fall off the end of the method.
RegisterReturns(kind, n) ==
    IF kind \in {"track_piece_change", "pong"} THEN Some(n) ELSE None

\* The kinds the class has a removal method for.
RemovableKinds == {"track_piece_change", "delocalized", "battery_change"}

\* list.remove: drops the first occurrence, ValueError if there is none.
ListRemove(list, x) ==
    LET at == {i \in 1..Len(list) : list[i] = x} IN
    IF at = {} THEN [raised |-> "ValueError", list |-> list]
    ELSE LET k == CHOOSE i \in at : \A j \in at : i <= j
         IN  [raised |-> "none",
              list |-> SubSeq(list, 1, k - 1) \o SubSeq(list, k + 1, Len(list))]

\* The model follows up to MaxWatchers registered callbacks at a time.
Registered ==
    Len(_track_piece_watchers) + Len(_pong_watchers)
        + Len(_delocal_watchers) + Len(_battery_watchers)

Register(kind, n) ==
    LET new == Append(Watchers(kind), UserCallback(n)) IN
    /\ Registered < MaxWatchers
    /\ _track_piece_watchers' =
           IF kind = "track_piece_change" THEN new ELSE _track_piece_watchers
    /\ _pong_watchers' = IF kind = "pong" THEN new ELSE _pong_watchers
    /\ _delocal_watchers' = IF kind = "delocalized" THEN new ELSE _delocal_watchers
    /\ _battery_watchers' = IF kind = "battery_change" THEN new ELSE _battery_watchers
    /\ last' = Outcome("register", kind, n, "none", RegisterReturns(kind, n))
    /\ UNCHANGED trackVars
    /\ UNCHANGED connVars
    /\ UNCHANGED <<_battery, _version_future, requester, _controller, ready>>

Remove(kind, n) ==
    LET res == ListRemove(Watchers(kind), UserCallback(n)) IN
    /\ kind \in RemovableKinds
    /\ _track_piece_watchers' =
           IF kind = "track_piece_change" THEN res.list ELSE _track_piece_watchers
    /\ _delocal_watchers' = IF kind = "delocalized" THEN res.list ELSE _delocal_watchers
    /\ _battery_watchers' = IF kind = "battery_change" THEN res.list ELSE _battery_watchers
    /\ last' = Outcome("remove", kind, n, res.raised, None)
    /\ UNCHANGED trackVars
    /\ UNCHANGED connVars
    /\ UNCHANGED <<_pong_watchers, _battery, _version_future, requester, _controller,
                   ready>>

\* ----------------------------------------------------------- connect
ConnectResults == {"ok", "BleakDBusError", "BleakError", "TimeoutError",
                   "no_service", "no_characteristic", "write_failed", "notify_failed"}

\* The exception connect() raises for each way its sub-steps can go.
ConnectRaises(r) ==
    CASE r = "ok" -> "none"
      [] r = "BleakDBusError" -> "ConnectionDatabusError"
      [] r = "BleakError" -> "ConnectionFailedError"
      [] r = "TimeoutError" -> "ConnectionTimedoutError"
      [] r \in {"no_service", "no_characteristic"} -> "RuntimeError"
      [] OTHER -> "BleakError"

NewTask == [pc |-> "start", timeouts |-> 0, fut |-> "pending", raised |-> "none",
            ponged |-> FALSE]

\* connect() marking the session connected before its sub-steps have succeeded.
Connect_MarksFirst(r) ==
    /\ r = "ok" => _ping_task < MaxTasks
    /\ _write_chara' = IF r = "ok" THEN TRUE ELSE _write_chara
    /\ _is_connected' = TRUE
    /\ _ping_task' = IF r = "ok" THEN _ping_task + 1 ELSE _ping_task
    /\ tasks' = IF r = "ok" THEN [tasks EXCEPT ![_ping_task + 1] = NewTask] ELSE tasks
    /\ last' = Last("connect", r, ConnectRaises(r), 0, FALSE)
    /\ UNCHANGED trackVars
    /\ UNCHANGED <<vehicles, _pong_watchers, ready, connector>>
    /\ UNCHANGED otherVars

Connect(r) ==
    /\ r = "ok" => _ping_task < MaxTasks
    /\ _write_chara' = IF r = "ok" THEN TRUE ELSE _write_chara
    /\ _is_connected' = IF r = "ok" THEN TRUE ELSE _is_connected
    /\ _ping_task' = IF r = "ok" THEN _ping_task + 1 ELSE _ping_task
    /\ tasks' = IF r = "ok" THEN [tasks EXCEPT ![_ping_task + 1] = NewTask] ELSE tasks
    /\ last' = Last("connect", r, ConnectRaises(r), 0, FALSE)
    /\ UNCHANGED trackVars
    /\ UNCHANGED <<vehicles, _pong_watchers, ready, connector>>
    /\ UNCHANGED otherVars

\* connect() one suspension at a time.  What each awaited sub-step can do:
\* the transport connect (after which the endpoints are resolved without a
\* suspension), the SDK-enable write and the notification subscription.
ConnectStepResults(pc) ==
    CASE pc = "transport" -> {"ok", "BleakDBusError", "BleakError", "TimeoutError",
                              "no_service", "no_characteristic"}
      [] pc = "sdk_write" -> {"ok", "write_failed"}
      [] pc = "subscribe" -> {"ok", "notify_failed"}
      [] OTHER -> {}

\* connect() marking the session connected as soon as the transport is up.
ConnectAdvance_MarksEarly(pc, r) ==
    IF r # "ok" THEN [pc |-> "idle", finished |-> FALSE, connected |-> _is_connected]
    ELSE CASE pc = "transport" ->
                [pc |-> "sdk_write", finished |-> FALSE, connected |-> TRUE]
           [] pc = "sdk_write" ->
                [pc |-> "subscribe", finished |-> FALSE, connected |-> _is_connected]
           [] OTHER -> [pc |-> "idle", finished |-> TRUE, connected |-> TRUE]

\* Where connect() goes from the sub-step it awaits when that returns r, whether
\* it reaches lines 390-394, and the value of _is_connected it leaves.
ConnectAdvance(pc, r) ==
    IF r # "ok" THEN [pc |-> "idle", finished |-> FALSE, connected |-> _is_connected]
    ELSE CASE pc = "transport" ->
                [pc |-> "sdk_write", finished |-> FALSE, connected |-> _is_connected]
           [] pc = "sdk_write" ->
                [pc |-> "subscribe", finished |-> FALSE, connected |-> _is_connected]
           [] OTHER -> [pc |-> "idle", finished |-> TRUE, connected |-> TRUE]

\* connect() is called and awaits the transport connect.
ConnectBegin ==
    /\ connector.pc = "idle"
    /\ _ping_task < MaxTasks
    /\ connector' = [pc |-> "transport"]
    /\ last' = Last("connect_begin", "none", "none", 0, FALSE)
    /\ UNCHANGED trackVars
    /\ UNCHANGED <<_is_connected, _write_chara, vehicles, _ping_task, tasks,
                   _pong_watchers, ready>>
    /\ UNCHANGED otherVars

\* The awaited sub-step returns r and connect() runs on to its next suspension
\* or to its end.
ConnectStep(r) ==
    LET a == ConnectAdvance(connector.pc, r) IN
    /\ r \in ConnectStepResults(connector.pc)
    /\ connector' = [pc |-> a.pc]
    /\ _is_connected' = a.connected
    /\ _write_chara' = IF a.finished THEN TRUE ELSE _write_chara
    /\ _ping_task' = IF a.finished THEN _ping_task + 1 ELSE _ping_task
    /\ tasks' = IF a.finished THEN [tasks EXCEPT ![_ping_task + 1] = NewTask] ELSE tasks
    /\ last' = Last("connect_step", connector.pc, ConnectRaises(r), 0, FALSE)
    /\ UNCHANGED trackVars
    /\ UNCHANGED <<vehicles, _pong_watchers, ready>>
    /\ UNCHANGED otherVars

\* -------------------------------------------------------- disconnect
DisconnectResults == {"True", "False", "TimeoutError"}

\* Task.cancel(): nothing for a finished task.
Cancelled(task) ==
    IF Live(task) THEN Finished("cancelled", "CancelledError") ELSE task

Cancel(ts, i) == [ts EXCEPT ![i] = Cancelled(ts[i])]

\* disconnect() doing its bookkeeping whatever the transport teardown returned.
DisconnectEffect_IgnoresResult(r) ==
    [connected |-> FALSE, vehicles |-> FALSE,
     tasks |-> IF _ping_task = 0 THEN tasks ELSE Cancel(tasks, _ping_task),
     raised |-> "none"]

\* disconnect() from the return of the transport teardown (r) to its end.
DisconnectEffect(r) ==
    LET same == [connected |-> _is_connected, vehicles |-> vehicles,
                 tasks |-> tasks, raised |-> "none"]
    IN  CASE r = "TimeoutError" -> [same EXCEPT !.raised = "DisconnectTimedoutError"]
          [] r = "False" -> [same EXCEPT !.connected = TRUE,
                                          !.raised = "DisconnectFailedError"]
          [] OTHER ->
             IF ~_controller THEN [same EXCEPT !.connected = FALSE]
             ELSE IF ~vehicles
             THEN [same EXCEPT !.connected = FALSE, !.raised = "ValueError"]
             ELSE IF _ping_task = 0
             THEN [same EXCEPT !.connected = FALSE, !.vehicles = FALSE,
                               !.raised = "AttributeError"]
             ELSE [same EXCEPT !.connected = FALSE, !.vehicles = FALSE,
                               !.tasks = Cancel(tasks, _ping_task)]

Disconnect(r) ==
    LET e == DisconnectEffect(r) IN
    /\ _is_connected' = e.connected
    /\ vehicles' = e.vehicles
    /\ tasks' = e.tasks
    /\ last' = Last("disconnect", r, e.raised, 0, FALSE)
    /\ UNCHANGED trackVars
    /\ UNCHANGED <<_write_chara, _ping_task, _pong_watchers, ready, connector>>
    /\ UNCHANGED otherVars

\* ------------------------------------------------ keep-alive supervisor
\* pong_watch: set_result() is called without its argument and raises before
\* anything is assigned.
PongWatch(task) == [task |-> task, raised |-> "TypeError"]

Callback(t) == [f |-> "pong_watch", task |-> t]

\* The event loop runs the next callback scheduled with call_soon.
RunCallback ==
    /\ ready # <<>>
    /\ LET cb == Head(ready) IN
        IF cb.f = "pong_watch"
        THEN LET res == PongWatch(tasks[cb.task]) IN
             /\ tasks' = [tasks EXCEPT ![cb.task] =
                              [res.task EXCEPT !.ponged = (res.task.pc = "wait")]]
             /\ last' = Last("pong_watch", "none", res.raised, 0, FALSE)
        ELSE /\ tasks' = tasks
             /\ last' = Outcome("callback", "none", cb.id, "none", _position)
    /\ ready' = Tail(ready)
    /\ UNCHANGED trackVars
    /\ UNCHANGED <<_is_connected, _write_chara, vehicles, _ping_task, _pong_watchers,
                   connector>>
    /\ UNCHANGED otherVars

StepInputs(pc) ==
    CASE pc = "sleep" -> {"ok", "OSError"}
      [] pc = "disconnect" -> DisconnectResults
      [] OTHER -> {"ok"}

\* while self.is_connected, for the task `me`.
Loop(me, connected) ==
    IF connected THEN [me EXCEPT !.pc = "sleep", !.ponged = FALSE]
    ELSE Finished("done", "none")

\* One step of the _auto_ping coroutine of task t, from where it is suspended
\* to its next suspension; r is what the transport does in that step.
AutoPing(t, r) ==
    LET me == tasks[t]
        same == [tasks |-> tasks, connected |-> _is_connected, vehicles |-> vehicles,
                 watchers |-> _pong_watchers, op |-> "auto_ping", raised |-> "none"]
    IN
    CASE me.pc = "start" ->
            [same EXCEPT !.tasks = [tasks EXCEPT ![t] = Loop(me, _is_connected)],
                         !.watchers = Append(_pong_watchers, Callback(t))]
      [] me.pc = "sleep" ->
            IF SendPackage(r) # "none"
            THEN [same EXCEPT !.tasks = [tasks EXCEPT ![t] = Finished("failed", SendPackage(r))],
                              !.op = "ping", !.raised = SendPackage(r)]
            ELSE [same EXCEPT !.tasks = [tasks EXCEPT ![t].pc = "wait"],
                              !.op = "ping"]
      [] me.pc = "wait" ->
            IF me.fut = "cancelled"
            THEN [same EXCEPT !.tasks = [tasks EXCEPT ![t] = Finished("failed", "CancelledError")],
                              !.op = "wait_for", !.raised = "CancelledError"]
            ELSE LET n == IF me.fut = "done" THEN 0 ELSE me.timeouts + 1
                     f == IF me.fut = "done" THEN "done" ELSE "cancelled"
                     counted == [me EXCEPT !.timeouts = n, !.fut = f, !.ponged = FALSE]
                 IN  [same EXCEPT !.tasks = [tasks EXCEPT ![t] =
                                    IF n > max_timeouts
                                    THEN [counted EXCEPT !.pc = "disconnect"]
                                    ELSE Loop(counted, _is_connected)],
                                  !.op = "wait_for"]
      [] OTHER ->
            LET e == DisconnectEffect(r)
                mine == e.tasks[t]
            IN  [same EXCEPT !.connected = e.connected,
                             !.vehicles = e.vehicles,
                             !.tasks = [e.tasks EXCEPT ![t] =
                                 IF e.raised # "none" THEN Finished("failed", e.raised)
                                 ELSE IF mine.pc = "cancelled" THEN mine
                                 ELSE Loop(mine, e.connected)],
                             !.op = "forced_disconnect", !.raised = e.raised]

AutoPingStep(t, r) ==
    /\ Live(tasks[t])
    /\ r \in StepInputs(tasks[t].pc)
    /\ LET s == AutoPing(t, r) IN
        /\ tasks' = s.tasks
        /\ _is_connected' = s.connected
        /\ vehicles' = s.vehicles
        /\ _pong_watchers' = s.watchers
        /\ last' = Last(s.op, "none", s.raised, t, tasks[t].ponged)
    /\ UNCHANGED trackVars
    /\ UNCHANGED <<_write_chara, _ping_task, ready, connector>>
    /\ UNCHANGED otherVars

\* ---------------------------------------------------- specifications
\* The dispatch routine and the callers that wait on it, in a session that is
\* connected at most once.
Next ==
    \/ \E d \in TrackUpdates \cup TrackChanges : NotifyHandler(d)
    \/ \E m \in Maps : SetMap(m)
    \/ WaitForTrackChange
    \/ WaitReturn
    \/ WaitCancel
    \/ \E s \in Speeds, t \in PieceTypes : AlignCall(s, t)
    \/ \E w \in {"ok", "OSError"} : AlignResume(w)
    \/ \E r \in {"ok"} : ~_is_connected /\ Connect(r)

Spec == Init /\ [][Next]_vars

\* The connection lifecycle and the keep-alive supervisor.
NextKeepAlive ==
    \/ \E r \in {"ok", "TimeoutError"} : Connect(r)
    \/ \E r \in DisconnectResults : Disconnect(r)
    \/ \E t \in 1..MaxTasks, r \in {"ok", "OSError"} \cup DisconnectResults : AutoPingStep(t, r)
    \/ RunCallback
    \/ NotifyHandler(Plain("PONG"))

SpecKeepAlive == Init /\ [][NextKeepAlive]_vars

\* connect() with every way its sub-steps can go, and the buffers the transport
\* delivers to the callback it subscribed.
Delivered == {Plain("PONG"), Plain("CHARGER_INFO")}

NextConnect ==
    \/ \E r \in ConnectResults : Connect(r)
    \/ \E r \in DisconnectResults : Disconnect(r)
    \/ \E t \in 1..MaxTasks, r \in {"ok", "OSError"} \cup DisconnectResults : AutoPingStep(t, r)
    \/ \E d \in Delivered : Deliver(d)

SpecConnect == Init /\ [][NextConnect]_vars

\* The dispatch routine on every kind of buffer, with a caller waiting for the
\* next track piece.
Notifications ==
    {[Plain("TRACK_PIECE_UPDATE") EXCEPT !.raw = raw] : raw \in PieceTypes}
        \cup TrackChanges \cup ChargerInfos \cup VersionResps \cup ShortBuffers
        \cup {Plain("PONG"), Plain("DELOCALIZED"), Plain("UNKNOWN")}

NextDispatch ==
    \/ \E d \in Notifications : NotifyHandler(d)
    \/ WaitForTrackChange
    \/ WaitReturn
    \/ WaitCancel

SpecDispatch == Init /\ [][NextDispatch]_vars

\* Callers of get_version() and of wait_for_track_change() and the
\* notifications that resolve their slots.
Resolving ==
    VersionResps \cup TrackChanges
        \cup {[Plain("TRACK_PIECE_UPDATE") EXCEPT !.raw = "FINISH"]}

NextRequests ==
    \/ \E d \in Resolving : NotifyHandler(d)
    \/ WaitForTrackChange
    \/ WaitReturn
    \/ WaitCancel
    \/ \E i \in Callers, w \in {"ok", "OSError"} : GetVersion(i, w)
    \/ \E i \in Callers : GetVersionAwait(i)
    \/ \E i \in Callers : GetVersionReturn(i)
    \/ \E i \in Callers : GetVersionCancel(i)
    \/ \E r \in {"ok"} : ~_is_connected /\ Connect(r)

SpecRequests == Init /\ [][NextRequests]_vars

\* Registration and removal of watchers, the notifications that fan out to them
\* and the event loop running what was scheduled.
Watched ==
    ChargerInfos \cup {Plain("TRACK_PIECE_CHANGE"), Plain("PONG"),
                       Plain("DELOCALIZED"), Plain("UNKNOWN")}

NextWatchers ==
    \/ \E k \in WatcherKinds, n \in UserCallbacks : Register(k, n)
    \/ \E k \in WatcherKinds, n \in UserCallbacks : Remove(k, n)
    \/ \E d \in Watched : NotifyHandler(d)
    \/ RunCallback

SpecWatchers == Init /\ [][NextWatchers]_vars

\* Construction of light patterns and set_light_pattern().
NextLights ==
    \/ \E c \in Channels, a \in FieldValues : Construct("STEADY", c, <<a>>)
    \/ \E e \in AnimatedEffects, c \in Channels, a \in FieldValues,
          b \in FieldValues, cy \in FieldValues : Construct(e, c, <<a, b, cy>>)
    \/ \E ps \in SeqsUpTo(SomePatterns, MaxPatterns), w \in {"ok", "OSError"} :
          SetLightPattern(ps, w)
    \/ \E e \in TriStates, h \in TriStates, b \in TriStates, f \in TriStates,
          w \in {"ok", "OSError"} : SetLights(e, h, b, f, w)
    \/ \E r \in {"ok"} : ~_is_connected /\ Connect(r)

SpecLights == Init /\ [][NextLights]_vars

\* Track-piece watchers, a caller waiting for the next piece and the
\* notifications about the track.
NextFanOut ==
    \/ \E n \in UserCallbacks : Register("track_piece_change", n)
    \/ \E n \in UserCallbacks : Remove("track_piece_change", n)
    \/ \E d \in TrackUpdates \cup TrackChanges : NotifyHandler(d)
    \/ WaitForTrackChange
    \/ WaitReturn
    \/ WaitCancel
    \/ RunCallback

SpecFanOut == Init /\ [][NextFanOut]_vars

\* connect() step by step, with disconnect(), the supervisor and delivered
\* buffers in between.
NextConnectSteps ==
    \/ ConnectBegin
    \/ \E r \in ConnectResults : ConnectStep(r)
    \/ \E r \in DisconnectResults : Disconnect(r)
    \/ \E t \in 1..MaxTasks, r \in {"ok", "OSError"} \cup DisconnectResults : AutoPingStep(t, r)
    \/ \E d \in Delivered : Deliver(d)

SpecConnectSteps == Init /\ [][NextConnectSteps]_vars

\* set_speed() on a session that connects and disconnects and receives
\* position updates.
NextDrive ==
    \/ \E sp \in CommandedSpeeds, ac \in CommandedAccels, w \in {"ok", "OSError"} :
          SetSpeed(sp, ac, w)
    \/ \E d \in TrackUpdates : NotifyHandler(d)
    \/ \E r \in {"ok"} : ~_is_connected /\ Connect(r)
    \/ \E r \in DisconnectResults : Disconnect(r)

SpecDrive == Init /\ [][NextDrive]_vars

\* ------------------------------------------------------------ claims
HandledChange == last.op = "TRACK_PIECE_CHANGE" /\ last.arg = "ok"

\* C1: a TRACK_PIECE_CHANGE handled while the cached piece is a finish piece
\* leaves mapPosition at 0, whatever the position and the map were before.
C1_FinishResetsToZero ==
    (HandledChange /\ last.piece = Some("FINISH")) => _position = Some(0)

\* C2: a TRACK_PIECE_CHANGE handled while the cached piece is not a finish piece
\* advances a known mapPosition by one, modulo len(map) when the map is known,
\* and leaves an unknown mapPosition unknown.
C2_AdvanceByOne ==
    (HandledChange /\ last.piece # Some("FINISH")) =>
        IF last.position = None THEN _position = None
        ELSE IF last.map = None THEN _position = Some(Val(last.position) + 1)
        ELSE _position = Some((Val(last.position) + 1) % Len(Val(last.map)))

C2_Witness ==
    /\ HandledChange
    /\ last.piece = Some("START")
    /\ last.map # None
    /\ last.position = Some(Len(Val(last.map)) - 1)
    /\ Len(Val(last.map)) > 1
    /\ _position = Some(0)

\* C3: whenever map and mapPosition are both known, 0 <= mapPosition < len(map).
C3_PositionInsideMap ==
    (_map # None /\ _position # None) =>
        (0 <= Val(_position) /\ Val(_position) < Len(Val(_map)))

\* C4: what wait_for_track_change() returns is unknown whenever map or
\* mapPosition is unknown, whatever piece is cached, and is map[mapPosition]
\* when both are known (an index outside the map raises and yields no piece).
C4_AccessorNeverLeaksCache ==
    last.op = "wait_return" =>
        IF _map = None \/ _position = None
        THEN waiter.value = None /\ waiter.raised = "none"
        ELSE IF Val(_position) < Len(Val(_map))
        THEN waiter.value = Some(Val(_map)[Val(_position) + 1]) /\ waiter.raised = "none"
        ELSE waiter.value = None /\ waiter.raised = "IndexError"

C4_Witness ==
    /\ last.op = "wait_return"
    /\ _current_track_piece = Some("FINISH")
    /\ _map = None
    /\ _position # None
    /\ waiter.value = None

\* C5: a connected session whose pings stay unanswered is disconnected by its
\* supervisor: the supervisor never gives up on an unanswered ping while the
\* session is still connected.
C5_UnansweredPingsDisconnect ==
    \A t \in 1..MaxTasks :
        (tasks[t].pc = "failed" /\ tasks[t].raised = "CancelledError") => ~_is_connected

\* C6: a pong fan-out received within the wait window resets the supervisor's
\* consecutive-timeout counter to 0.
C6_PongResetsCounter ==
    (last.op = "wait_for" /\ last.ponged) => tasks[last.task].timeouts = 0

\* C7: once the session has left Connected, the supervisor sends no further ping
\* and runs no further iteration: any step it takes ends it.
C7_SupervisorStopsWithSession ==
    (last.op \in {"auto_ping", "ping", "wait_for", "forced_disconnect"} /\ ~last.connected) =>
        (last.op # "ping" /\ Ended(tasks[last.task]))

\* C8: after a successful disconnect() isConnected is false, the session is out
\* of its registry and the keep-alive task is cancelled, with or without a
\* controller.
C8_DisconnectCancelsKeepAlive ==
    (last.op = "disconnect" /\ last.arg = "True" /\ last.raised = "none") =>
        /\ ~_is_connected
        /\ ~vehicles
        /\ \A t \in 1..MaxTasks : t = _ping_task => ~Live(tasks[t])

\* C9: at most one keep-alive supervisor task is live at any time.
C9_OneSupervisor ==
    Cardinality({t \in 1..MaxTasks : Live(tasks[t])}) <= 1

\* C10 as stated: whenever disconnect() fails (the transport teardown times out
\* or reports that the connection remains) it raises its typed error and
\* isConnected is true afterwards.
C10_FailedDisconnectLeavesConnected ==
    (last.op = "disconnect" /\ last.arg \in {"False", "TimeoutError"}) =>
        /\ last.raised \in {"DisconnectTimedoutError", "DisconnectFailedError"}
        /\ _is_connected

\* C10 as amended: a disconnect() of a connected session whose transport teardown
\* times out or reports that the connection remains raises
\* DisconnectTimedoutError, resp. DisconnectFailedError, and leaves isConnected
\* true, the keep-alive tasks as they were and the session in its registry.
C10_FailedDisconnectKeepsSession ==
    [][(last'.op = "disconnect" /\ last'.arg \in {"False", "TimeoutError"} /\ _is_connected) =>
        /\ last'.raised = IF last'.arg = "TimeoutError" THEN "DisconnectTimedoutError"
                          ELSE "DisconnectFailedError"
        /\ _is_connected'
        /\ tasks' = tasks
        /\ vehicles' = vehicles]_vars

C10_Witness ==
    /\ last.op = "disconnect"
    /\ last.arg = "TimeoutError"
    /\ last.raised = "DisconnectTimedoutError"
    /\ last.connected
    /\ _is_connected
    /\ vehicles
    /\ \E t \in 1..MaxTasks : t = _ping_task /\ tasks[t].pc = "sleep"

\* C11 as stated: whenever a sub-step of connect() fails, connect() raises and
\* isConnected is false afterwards.
C11_FailedConnectLeavesDisconnected ==
    (last.op = "connect" /\ last.arg # "ok") =>
        (last.raised # "none" /\ ~_is_connected)

\* C11 as amended: a connect() of a session that is not connected, one of whose
\* sub-steps fails, raises, leaves isConnected false and starts no keep-alive
\* task.
C11_FailedConnectStartsNothing ==
    [][(last'.op = "connect" /\ last'.arg # "ok" /\ ~_is_connected) =>
        /\ last'.raised # "none"
        /\ ~_is_connected'
        /\ tasks' = tasks
        /\ _ping_task' = _ping_task]_vars

C11_Witness ==
    /\ last.op = "connect"
    /\ last.arg = "notify_failed"
    /\ last.raised = "BleakError"
    /\ ~last.connected
    /\ ~_is_connected
    /\ \E t \in 1..MaxTasks : t = _ping_task /\ Ended(tasks[t])

\* C12: after connect() has succeeded, a CHARGER_INFO buffer the transport
\* delivers to the subscribed callback replaces batteryState with the payload's.
C12_DeliveredIsDispatched ==
    (last.op = "deliver" /\ last.arg = "CHARGER_INFO") =>
        _battery = FromChargerInfo(Plain("CHARGER_INFO"))

\* C13: a VERSION_RESP resolves exactly one of the callers of get_version()
\* waiting for it; a second waiting caller stays pending until a second
\* VERSION_RESP is dispatched.
C13_OneResponsePerCaller ==
    [][last'.op = "VERSION_RESP" =>
        Cardinality({i \in Callers : requester[i].pc = "waiting"
                                        /\ requester'[i].pc = "woken"}) <= 1]_vars

\* C14: a wait never completes from a notification dispatched before it began:
\* a wait_for_track_change() or get_version() that starts does not find a
\* resolved slot, and a pending one is resumed only by the dispatch of a
\* TRACK_PIECE_CHANGE, resp. VERSION_RESP, that follows.
C14_NoStaleResult ==
    [][/\ last'.op = "wait_call" => waiter'.pc # "woken"
       /\ last'.op = "get_version_await" => requester'[last'.who].pc # "woken"
       /\ (waiter.pc = "waiting" /\ waiter'.pc = "woken") =>
              (last'.op = "TRACK_PIECE_CHANGE" /\ last'.arg = "ok")
       /\ \A i \in Callers :
              (requester[i].pc = "waiting" /\ requester'[i].pc = "woken") =>
                  (last'.op = "VERSION_RESP" /\ last'.arg = "ok")
       /\ _track_piece_future' # "done"
       /\ _version_future' # "done"]_vars

\* A wait begun after a TRACK_PIECE_CHANGE has advanced the position is pending.
C14_Witness ==
    /\ last.op = "wait_call"
    /\ waiter.pc = "waiting"
    /\ _map = None
    /\ _position # None
    /\ InRange(_position)
    /\ _position # Some(0)
    /\ \E i \in Callers : requester[i].pc = "idle" /\ requester[i].value # None

\* The fields of the session the dispatch routine can touch.
sessionVars == <<_current_track_piece, _position, _road_offset, _speed,
                 _track_piece_future, _version_future, _battery, waiter, requester,
                 ready>>

\* C15: a notification that cannot be decoded (short buffer or truncated
\* payload) does not raise out of the dispatch routine and leaves the session
\* as it was, so that later notifications are handled as if it had not arrived.
C15_MalformedIsHarmless ==
    [][(last'.op \in MsgTypes /\ last'.arg \in {"short", "truncated"}) =>
        (last'.raised = "none" /\ UNCHANGED sessionVars)]_vars

\* C16: a notification of an unrecognised type is reported as not processed,
\* raises nothing, leaves roadOffset, speed, the cached piece, mapPosition,
\* batteryState and both pending slots unchanged and schedules no watcher.
C16_UnknownIsDropped ==
    [][(last'.op = "UNKNOWN" /\ last'.arg = "ok") =>
        /\ ~last'.returned
        /\ last'.raised = "none"
        /\ UNCHANGED sessionVars]_vars

C16_Witness ==
    /\ last.op = "UNKNOWN"
    /\ last.arg = "ok"
    /\ ~last.returned
    /\ Len(_pong_watchers) > 0
    /\ Len(_battery_watchers) > 0
    /\ _battery.low_battery = None
    /\ ready = <<>>

\* C17: a truncated CHARGER_INFO fails in the decoder, leaves batteryState as it
\* was and schedules no battery watcher; a well-formed one replaces batteryState
\* by (full, low unknown, onCharger, charging) of the payload.
C17_ChargerInfoAllOrNothing ==
    [][\A d \in ChargerInfos :
        (last'.op = "CHARGER_INFO" /\ NotifyHandler(d)) =>
            IF d.truncated
            THEN /\ last'.raised = "struct.error"
                 /\ UNCHANGED <<_battery, ready>>
            ELSE /\ last'.raised = "none"
                 /\ _battery' = [full_battery |-> d.full, low_battery |-> None,
                                 on_charger |-> d.on_charger,
                                 charging |-> Some(d.charging)]]_vars

C17_Witness ==
    /\ last.op = "CHARGER_INFO"
    /\ last.arg = "truncated"
    /\ last.raised = "struct.error"
    /\ _battery = [full_battery |-> FALSE, low_battery |-> None,
                   on_charger |-> TRUE, charging |-> Some(FALSE)]
    /\ Len(_battery_watchers) > 0
    /\ ready = <<>>

\* C20: for each of the four watcher kinds, registering a callback returns that
\* callback, the kind has a removal operation that takes one registration of
\* the callback out of the collection, and removing a callback that is not
\* registered raises and leaves the collection unchanged.
C20_WatchersSymmetric ==
    [][/\ last'.op = "register" => last'.result = Some(last'.who)
       /\ WatcherKinds \subseteq RemovableKinds
       /\ \A k \in WatcherKinds, n \in UserCallbacks :
            (last'.op = "remove" /\ last'.arg = k /\ last'.who = n) =>
                IF \E i \in 1..Len(Watchers(k)) : Watchers(k)[i] = UserCallback(n)
                THEN /\ last'.raised = "none"
                     /\ Len(Watchers(k)') = Len(Watchers(k)) - 1
                ELSE /\ last'.raised = "ValueError"
                     /\ Watchers(k)' = Watchers(k)]_vars

\* C18: set_light_pattern with more than 3 patterns raises before a packet is
\* built and before anything is written; with 0 to 3 patterns the payload is
\* one byte holding the number of patterns followed by 5 bytes per pattern.
C18_PatternCountChecked ==
    last.op = "set_light_pattern" =>
        LET n == last.who
            out == Val(last.result)
        IN  IF n > 3
            THEN /\ last.raised = "ValueError"
                 /\ out.payload = None
                 /\ ~out.written
            ELSE /\ out.payload # None
                 /\ Len(Val(out.payload)) = 1 + 5 * n
                 /\ Val(out.payload)[1] = n

C18_Witness ==
    /\ last.op = "set_light_pattern"
    /\ last.who = 4
    /\ last.raised = "ValueError"
    /\ _write_chara
    /\ _is_connected

\* The upper limit of each field of a pattern with the given effect, and the
\* name its error gives it.
Limits(effect) ==
    IF effect = "STEADY" THEN <<14>> ELSE <<14, 14, 255>>
FieldNames(effect) ==
    IF effect = "STEADY" THEN <<"brightness">> ELSE <<"start", "end", "cycles_per_10s">>

\* C19: constructing a Steady, Fade, Throb or Flash pattern succeeds exactly
\* when every field is inside its inclusive range (0..14, cycles 0..255) and
\* then stores the values given; otherwise it raises an error naming a field
\* that is out of range, and no pattern exists.
C19_FieldsValidated ==
    last.op = "construct" =>
        LET out == Val(last.result)
            lim == Limits(last.arg)
            bad == {i \in 1..Len(lim) : out.given[i] < 0 \/ out.given[i] > lim[i]}
        IN  IF bad = {}
            THEN /\ last.raised = "none"
                 /\ out.pattern # None
                 /\ Val(out.pattern).start = out.given[1]
                 /\ last.arg # "STEADY" =>
                        /\ Val(out.pattern).end = out.given[2]
                        /\ Val(out.pattern).cycles = out.given[3]
            ELSE /\ last.raised = "ValueError"
                 /\ out.pattern = None
                 /\ \E i \in bad : out.field = FieldNames(last.arg)[i]
                 /\ Cardinality(bad) = 1 =>
                        \A i \in bad : out.field = FieldNames(last.arg)[i]

C19_Witness ==
    /\ last.op = "construct"
    /\ last.arg = "FADE"
    /\ Val(last.result).given = <<14, 14, 256>>
    /\ last.raised = "ValueError"
    /\ Val(last.result).field = "cycles_per_10s"
    /\ Val(last.result).pattern = None

\* align() has returned normally.
AlignReturned ==
    /\ last.op = "align_resume"
    /\ last.arg = "ok"
    /\ last.raised = "none"
    /\ aligner.pc = "idle"

\* C21 as stated: when align() returns, mapPosition is 0 and the speed last
\* commanded is 0.
C21_AlignReturnsAtZero ==
    AlignReturned => (_position = Some(0) /\ _speed = 0)

\* C21 as amended: align() first writes its speed command; it leaves its loop
\* only in a state where the cached piece has the target type, sets mapPosition
\* to 0 there and then writes a stop; it is resumed from a wait only by a
\* TRACK_PIECE_CHANGE, and it returns only from the completed stop write, with
\* the speed field 0.
C21_AlignStopsOnTarget ==
    [][/\ (aligner.pc = "idle" /\ aligner'.pc # "idle") =>
              (aligner'.pc = "set_speed" /\ UNCHANGED <<_position, _speed>>)
       /\ (aligner.pc = "set_speed" /\ aligner'.pc \in {"waiting", "stop"}) =>
              _speed' = aligner.speed
       /\ (aligner.pc # "stop" /\ aligner'.pc = "stop") =>
              /\ OnTarget(_current_track_piece, aligner.target)
              /\ _position' = Some(0)
       /\ (aligner.pc = "waiting" /\ aligner'.pc = "woken") =>
              last'.op = "TRACK_PIECE_CHANGE"
       /\ AlignReturned' => (aligner.pc = "stop" /\ _speed' = 0)]_vars

C21_Witness ==
    /\ AlignReturned
    /\ aligner.target = "START"
    /\ _current_track_piece = Some("START")
    /\ _position = Some(0)
    /\ _speed = 0

\* C22: isConnected is true only if some connect() has succeeded and no
\* disconnect() has succeeded since: it becomes true only by a successful
\* connect(), and it is false after every successful disconnect().
C22_ConnectedOnlyByConnect ==
    [][/\ (~_is_connected /\ _is_connected') =>
              (last'.op = "connect" /\ last'.arg = "ok")
       /\ (last'.op \in {"disconnect", "forced_disconnect"} /\ last'.raised = "none") =>
              ~_is_connected']_vars

\* C23: a handled TRACK_PIECE_CHANGE updates mapPosition, completes the pending
\* slot and replaces it by a fresh one, calls the on-change hook once, which
\* finds the updated position and the fresh slot, and then schedules every
\* registration of a track-piece watcher exactly once; a watcher runs later and
\* finds the position as it is then.
C23_ChangeStepsInOrder ==
    [][/\ (last'.op = "TRACK_PIECE_CHANGE" /\ last'.arg = "ok"
                /\ last'.raised = "none") =>
              /\ _track_piece_future' = "pending"
              /\ waiter.pc = "waiting" => waiter'.pc = "woken"
              /\ last'.hook = Some([position |-> _position', slot |-> "pending"])
              /\ ready' = ready \o _track_piece_watchers
       /\ last'.op = "callback" =>
              /\ ready # <<>>
              /\ ready' = Tail(ready)
              /\ last'.who = Head(ready).id
              /\ last'.result = _position
              /\ UNCHANGED _position]_vars

C23_Witness ==
    /\ last.op = "TRACK_PIECE_CHANGE"
    /\ last.arg = "ok"
    /\ last.raised = "none"
    /\ last.position = Some(1)
    /\ _position = Some(2)
    /\ waiter.pc = "woken"
    /\ Len(_track_piece_watchers) = 2
    /\ ready = _track_piece_watchers

\* C24: a decoded TRACK_PIECE_UPDATE stores its offset and speed, leaves
\* mapPosition, map, batteryState and both pending slots unchanged and schedules
\* no watcher; it raises nothing even when its piece cannot be resolved, in
\* which case the cached piece keeps its value, and otherwise the cached piece
\* becomes the resolved one.
C24_UpdateFrame ==
    [][\A d \in TrackUpdates :
        (~d.truncated /\ NotifyHandler(d)) =>
            /\ last'.raised = "none"
            /\ last'.returned
            /\ _road_offset' = Some(d.offset)
            /\ _speed' = d.speed
            /\ UNCHANGED <<_position, _map, _battery, _track_piece_future,
                           _version_future, ready, waiter>>
            /\ IF d.raw \in PieceTypes
               THEN _current_track_piece' = Some(d.raw)
               ELSE UNCHANGED _current_track_piece]_vars

C24_Witness ==
    /\ last.op = "TRACK_PIECE_UPDATE"
    /\ last.arg = "ok"
    /\ last.piece = Some("FINISH")
    /\ _current_track_piece = Some("FINISH")
    /\ _road_offset = Some(5)
    /\ _speed = 300
    /\ _position # None
    /\ Len(_track_piece_watchers) > 0
    /\ waiter.pc = "waiting"
    /\ ready = <<>>

\* The order in which connect() passes its suspensions.
ConnectOrder ==
    {<<"idle", "transport">>, <<"transport", "sdk_write">>,
     <<"sdk_write", "subscribe">>, <<"subscribe", "idle">>,
     <<"transport", "idle">>, <<"sdk_write", "idle">>}

\* C25: connect() passes transport connect, SDK-enable write and notification
\* subscription in this order; no step before the completed subscription
\* changes isConnected, the stored endpoints or the keep-alive tasks; the step
\* that completes the subscription sets isConnected and starts the task, and
\* no task is ever started in a step that leaves isConnected false.
C25_ConnectStepsInOrder ==
    [][/\ connector'.pc # connector.pc => <<connector.pc, connector'.pc>> \in ConnectOrder
       /\ (last'.op \in {"connect_begin", "connect_step"}
                /\ ~(connector.pc = "subscribe" /\ last'.raised = "none")) =>
              UNCHANGED <<_is_connected, _write_chara, _ping_task, tasks>>
       /\ (last'.op = "connect_step" /\ connector.pc = "subscribe"
                /\ last'.raised = "none") =>
              /\ _is_connected'
              /\ _write_chara'
              /\ _ping_task' = _ping_task + 1
              /\ tasks'[_ping_task'].pc = "start"
       /\ \A t \in 1..MaxTasks :
              (tasks[t].pc = "none" /\ tasks'[t].pc # "none") => _is_connected']_vars

C25_Witness ==
    /\ last.op = "connect_step"
    /\ last.arg = "subscribe"
    /\ last.raised = "none"
    /\ ~last.connected
    /\ _is_connected
    /\ _ping_task = 2
    /\ tasks[2].pc = "start"

\* C26: for every combination of the four tri-state arguments of set_lights,
\* the byte has a light's bit set in the low nibble exactly when its argument
\* is given and the same bit set in the high nibble exactly when its argument
\* is true.
C26_LightsByte ==
    last.op = "set_lights" =>
        LET out == Val(last.result)
            args == <<out.engine, out.brakelights, out.headlights,
                      out.brakelights_flicker>>
            bits == <<1, 2, 4, 8>>
        IN  /\ out.light \in 0..255
            /\ \A i \in 1..4 :
                  /\ HasBit(out.light, bits[i]) <=> (args[i] # None)
                  /\ HasBit(out.light, 16 * bits[i]) <=> (args[i] = Some(TRUE))

C26_Witness ==
    /\ last.op = "set_lights"
    /\ last.raised = "none"
    /\ Val(last.result).engine = None
    /\ Val(last.result).brakelights = Some(TRUE)
    /\ Val(last.result).headlights = Some(FALSE)
    /\ Val(last.result).brakelights_flicker = None
    /\ Val(last.result).light = 38

\* C27: after a caller has cancelled its pending wait_for_track_change() or
\* get_version(), the next well-formed TRACK_PIECE_CHANGE, resp. VERSION_RESP,
\* is handled without error, its hook runs and a fresh pending slot is installed.
C27_DispatchSurvivesCancel ==
    [][/\ (_track_piece_future = "cancelled" /\ last'.op = "TRACK_PIECE_CHANGE"
                /\ last'.arg = "ok") =>
              /\ last'.raised = "none"
              /\ last'.hook # None
              /\ _track_piece_future' = "pending"
       /\ (_version_future = "cancelled" /\ last'.op = "VERSION_RESP"
                /\ last'.arg = "ok") =>
              /\ last'.raised = "none"
              /\ _version_future' = "pending"]_vars

\* C28: a well-formed VERSION_RESP resolves every get_version() call whose
\* request write has started, whether the call already awaits the pending slot
\* or is still suspended in the write.
C28_ResolvedAfterWriteStarted ==
    [][(last'.op = "VERSION_RESP" /\ last'.arg = "ok" /\ last'.raised = "none") =>
        \A i \in Callers :
            requester[i].pc \in {"sent", "waiting"} => requester'[i].pc = "woken"]_vars

\* C29: set_speed stores the commanded speed only when the write succeeded and
\* changes nothing else; when the encoding or the write fails the error reaches
\* the caller and the whole session is as it was.
C29_SpeedAfterWrite ==
    [][last'.op = "set_speed" =>
        /\ last'.raised = "none" <=>
              (last'.who \in Int16 /\ Val(last'.result) \in Int16
                  /\ _write_chara /\ last'.arg = "ok")
        /\ _speed' = IF last'.raised = "none" THEN last'.who ELSE _speed
        /\ UNCHANGED <<_current_track_piece, _position, _map, _road_offset,
                       _track_piece_future, waiter, aligner, _pong_watchers, ready>>
        /\ UNCHANGED connVars
        /\ UNCHANGED otherVars]_vars

\* A set_speed that failed after an earlier one had stored another speed.
C29_Witness ==
    /\ last.op = "set_speed"
    /\ last.raised \in {"OverflowError", "RuntimeError"}
    /\ last.who \in {0, 32768}
    /\ _speed = 300
====
